---- MODULE Spec2Model ----
(***************************************************************************)
(* The synchronization orchestrator of canvas-automation-flow              *)
(* (src/src/sync/sync_service.py, CanvasSyncService) with the in-memory    *)
(* storage of src/src/main.py, as a state machine.                         *)
(*                                                                         *)
(* Worker threads call the public operations of one CanvasSyncService.     *)
(* Every access to the shared objects (sync_jobs, running_syncs, the       *)
(* database dictionaries, the clock) is one step of its own; the code      *)
(* takes no lock, so the steps of different threads interleave freely.     *)
(***************************************************************************)
EXTENDS Integers, Sequences, FiniteSets, TLC

(* ------------------------------ bounds --------------------------------- *)

\* Clock readings are 0..MaxClock (datetime.utcnow() at its resolution).
MaxClock == 1
\* Calls of the public operations made in one behaviour.
MaxCalls == 2
\* Remote entities carry the ids 1..MaxRemoteId.
MaxRemoteId == 2

Threads == {"t1", "t2"}
\* The keys of auth_service.users_db.
Users == {"u1", "u2"}
\* A user id that users_db does not hold.
UnknownUser == "nobody"
RemoteIds == 1..MaxRemoteId

\* The client's clock runs from StartTime to MaxTime; one tick is
\* min_request_interval.
MaxTime == 4
\* Calls of the client's operations made in one behaviour.
MaxClientCalls == 3
\* cache_ttl after construction (300 s), brought into the clock's range.
DefaultTTL == 2
\* The largest value given to set_cache_ttl.
MaxTTL == 2

(* --------------------------- values ------------------------------------ *)

\* Optional[...] values: None is the empty sequence, a set value <<v>>.
None == <<>>
Some(v) == <<v>>

\* SyncStatus
PENDING == "pending"
RUNNING == "running"
COMPLETED == "completed"
FAILED == "failed"

\* One item of a remote collection is its id and whether the loop body raises
\* on it: a missing 'name' (KeyError), a date that datetime.fromisoformat
\* rejects (ValueError), a save that the database refuses. Each of them is
\* raised before the mirror is stored and is caught by the same except clause.

\* str(e) of the exceptions that the client construction and the collection
\* fetch raise: the CanvasAPIError family of _make_request, and
\* cryptography's InvalidToken from decrypt_token, whose text is empty.
FetchErrors ==
    { "Invalid or expired access token",
      "Request timeout",
      "" }

\* The k-th smallest element of a set of numbers.
Kth(S, k) == CHOOSE x \in S : Cardinality({y \in S : y < x}) = k - 1

\* A collection endpoint's JSON array: each remote entity once, by id.
ResponseOf(f) ==
    [k \in 1..Cardinality(DOMAIN f) |->
        [id |-> Kth(DOMAIN f, k), fails |-> f[Kth(DOMAIN f, k)]]]

Responses == UNION { {ResponseOf(f) : f \in [S -> BOOLEAN]} : S \in SUBSET RemoteIds }

\* str(n)
Str(n) == ToString(n)

\* The local identifiers of the mirrors.
CourseKey(id) == "course_" \o Str(id)
AssignKey(id) == "assign_" \o Str(id)
SubKey(id) == "sub_" \o Str(id)

CourseArgs == {Str(i) : i \in RemoteIds}

(* --------------------------- state ------------------------------------- *)

VARIABLES
    now,            \* the clock
    sync_jobs,      \* CanvasSyncService.sync_jobs: job id -> SyncJob
    running_syncs,  \* CanvasSyncService.running_syncs
    courses,        \* database.courses: key -> Course
    assignments,    \* database.assignments: key -> Assignment
    submissions,    \* database.submissions: key -> Submission
    net_requests,   \* collection requests sent to the remote service
    calls,          \* calls of the public operations made so far
    pc,             \* each thread's position
    frame,          \* each thread's collection sync in progress (its locals)
    full,           \* each thread's sync_user_full in progress (its locals)
    result,         \* what each thread's last call returned or raised
    \* one CanvasAPIClient (src/src/canvas/canvas_client.py) and its callers
    clock,          \* time.time() and datetime.utcnow(), in ticks
    utc_offset,     \* the process's local time minus UTC, in ticks
    cache,          \* CanvasAPIClient.cache: key -> (data, timestamp)
    cache_ttl,      \* CanvasAPIClient.cache_ttl
    rate_limit_info,    \* CanvasAPIClient.rate_limit_info
    last_request_time,  \* CanvasAPIClient.last_request_time
    sent,           \* the times at which the requests went to the network
    ccalls,         \* calls of the client's operations made so far
    cpc,            \* each thread's position in the client
    cframe,         \* each thread's client call in progress (its locals)
    cresult,        \* what each thread's last client call returned or raised
    \* the remote course whose assignments are synced twice in succession
    remote,         \* the course and its assignment list
    first_run,      \* the assignment mirrors as the first run left them
    workflow_state, \* the remote workflow_state of each assignment, if any
    \* _update_sync_job as its setattr calls, and a poller of get_sync_status
    setting,        \* each thread's _update_sync_job in progress
    handed,         \* the job that get_sync_status handed out, as it was then
    \* _background_sync and its ThreadPoolExecutor
    token_expires_at,   \* User.token_expires_at of each user of users_db
    bgpc,           \* the position of the background thread
    active_users,   \* the users that the loop of a tick has yet to visit
    work_queue,     \* the executor's work items no worker has taken
    futures,        \* the users whose sync the tick submitted
    ticks           \* the ticks of the background loop so far

sync == <<now, sync_jobs, running_syncs, courses, assignments, submissions,
          net_requests, calls, pc, frame, full, result>>

client == <<clock, utc_offset, cache, cache_ttl, rate_limit_info,
            last_request_time, sent, ccalls, cpc, cframe, cresult>>

rerun == <<remote, first_run, workflow_state>>

poll == <<setting, handed>>

background == <<token_expires_at, bgpc, active_users, work_queue, futures, ticks>>

vars == <<sync, client, rerun, poll, background>>

db == <<courses, assignments, submissions>>

NoFrame ==
    [kind |-> "none", user_id |-> "", force_refresh |-> FALSE,
     course_id |-> "", assignment_id |-> "", job_id |-> "",
     data |-> <<>>, i |-> 0, synced |-> 0, exc |-> None, caller |-> "top"]

NoFull == [user_id |-> "", job_id |-> "", todo |-> {}]

NoResult == [tag |-> "init", val |-> ""]

(* --------------------------- SyncJob ----------------------------------- *)

\* f"sync_{user_id}_{sync_type}_{datetime.utcnow().timestamp()}"
JobId(user_id, sync_type, ts) ==
    "sync_" \o user_id \o "_" \o sync_type \o "_" \o Str(ts)

NewJob(user_id, sync_type) ==
    [user_id |-> user_id, sync_type |-> sync_type, status |-> PENDING,
     started_at |-> None, completed_at |-> None, error_message |-> None,
     items_processed |-> 0, items_total |-> 0]

\* self.sync_jobs[job.id] = job
PutJob(jobs, job_id, job) ==
    [id \in DOMAIN jobs \cup {job_id} |-> IF id = job_id THEN job ELSE jobs[id]]

\* _create_sync_job: the registry after the creation at clock reading ts.
CreateSyncJob(jobs, user_id, sync_type, ts) ==
    PutJob(jobs, JobId(user_id, sync_type, ts), NewJob(user_id, sync_type))

\* _update_sync_job: every named field of the registered job is set.
UpdateSyncJob(jobs, job_id, updates) ==
    IF job_id \in DOMAIN jobs
    THEN [jobs EXCEPT ![job_id] =
            [k \in DOMAIN @ |-> IF k \in DOMAIN updates THEN updates[k] ELSE @[k]]]
    ELSE jobs

(* --------------------------- storage ----------------------------------- *)

\* A storage that inserts a further record when the key is taken.
SaveInsert(table, key, record) ==
    [k \in DOMAIN table \cup {IF key \in DOMAIN table THEN key \o "_2" ELSE key} |->
        IF k \in DOMAIN table THEN table[k] ELSE record]

\* InMemoryDatabase.save_*: self.<table>[record.id] = record
Save(table, key, record) ==
    [k \in DOMAIN table \cup {key} |-> IF k = key THEN record ELSE table[k]]

\* AssignmentStatus, by its values.
DRAFT == "draft"
PUBLISHED == "published"
UNPUBLISHED == "unpublished"

\* What the remote reports as the workflow_state of an assignment: nothing,
\* or one of Canvas's states.
WorkflowStates == {None, Some("published"), Some("unpublished"), Some("deleted")}

\* status=assignment_data.get('workflow_state', 'published'): the remote
\* text as it is, 'published' when the key is absent.
StatusOf(ws) == IF ws = None THEN "published" ELSE ws[1]

\* The remote whose assignments are all published.
AllPublished == [i \in RemoteIds |-> Some("published")]

\* The mirror that the sync loop builds from a well-formed remote item.
CourseOf(item) == [id |-> CourseKey(item.id), canvas_course_id |-> Str(item.id)]
AssignmentOf(item, course_id) ==
    [id |-> AssignKey(item.id), canvas_assignment_id |-> Str(item.id),
     course_id |-> course_id, status |-> StatusOf(workflow_state[item.id])]
SubmissionOf(item, assignment_id) ==
    [id |-> SubKey(item.id), canvas_submission_id |-> Str(item.id),
     assignment_id |-> assignment_id]

\* InMemoryDatabase.get_courses_for_user: every stored course, whoever synced it.
GetCoursesForUser(user_id) == {courses[k] : k \in DOMAIN courses}

(* --------------------------- Init -------------------------------------- *)

SyncConstructed ==
    /\ now = 0
    /\ sync_jobs = <<>>
    /\ running_syncs = {}
    /\ courses = <<>>
    /\ assignments = <<>>
    /\ submissions = <<>>
    /\ net_requests = 0
    /\ calls = 0
    /\ pc = [t \in Threads |-> "idle"]
    /\ frame = [t \in Threads |-> NoFrame]
    /\ full = [t \in Threads |-> NoFull]
    /\ result = [t \in Threads |-> NoResult]

\* No _update_sync_job is in progress and no job was handed out.
NoSetting == [job_id |-> "", updates |-> <<>>, keys |-> <<>>]

PollConstructed ==
    /\ setting = [t \in Threads |-> NoSetting]
    /\ handed = None

\* The background thread is in its first time.sleep(self.sync_interval).
BackgroundAsleep ==
    /\ bgpc = "sleep"
    /\ active_users = <<>>
    /\ work_queue = <<>>
    /\ futures = {}
    /\ ticks = 0

\* Users whose token has no expiration set.
NeverExpires == [u \in Users |-> None]

(* --------------------------- helpers ----------------------------------- *)

Raise(msg) == [tag |-> "raise", val |-> msg]
ReturnJob(job_id) == [tag |-> "job", val |-> job_id]
ReturnNone == [tag |-> "none", val |-> ""]

\* The locals of a collection sync that has passed its entry checks.
NewFrame(kind, user_id, force_refresh, course_id, assignment_id, caller) ==
    [NoFrame EXCEPT !.kind = kind, !.user_id = user_id,
                    !.force_refresh = force_refresh, !.course_id = course_id,
                    !.assignment_id = assignment_id, !.caller = caller]

\* A sync_user_courses without its finally block.
AfterTerminalNoFinally(kind) == "ret"

\* Where a collection sync goes once its job is terminal: sync_user_courses
\* has a finally block, the other two return or raise at once.
AfterTerminal(kind) == IF kind = "courses" THEN "finally" ELSE "ret"

\* The loop of a collection sync after item i: the next item, or the end.
AfterItem(fr) == IF fr.i < Len(fr.data) THEN "save" ELSE "complete"

\* An entry that leaves out the running check.
CoursesAdmittedUnchecked(user_id, force_refresh) == user_id \in Users

\* sync_user_courses, lines 99-105: the user lookup and the running check.
\* TRUE when the call goes on to create its job.
CoursesAdmitted(user_id, force_refresh) ==
    /\ user_id \in Users
    /\ force_refresh \/ user_id \notin running_syncs

\* What a call that does not go on returns or raises.
CoursesRefusal(user_id) ==
    IF user_id \notin Users
    THEN Raise("User " \o user_id \o " not found")
    ELSE ReturnNone

\* The entry of sync_user_courses in thread t, called from the top.
EnterCourses(t, user_id, force_refresh) ==
    IF CoursesAdmitted(user_id, force_refresh)
    THEN /\ pc' = [pc EXCEPT ![t] = "create"]
         /\ frame' = [frame EXCEPT ![t] =
                NewFrame("courses", user_id, force_refresh, "", "", "top")]
         /\ result' = [result EXCEPT ![t] = NoResult]
    ELSE /\ pc' = pc
         /\ frame' = [frame EXCEPT ![t] = NoFrame]
         /\ result' = [result EXCEPT ![t] = CoursesRefusal(user_id)]

\* The entry of sync_course_assignments / sync_assignment_submissions. The
\* course_id of a submissions sync only names the remote collection.
EnterItems(t, kind, user_id, course_id, assignment_id) ==
    IF user_id \in Users
    THEN /\ pc' = [pc EXCEPT ![t] = "create"]
         /\ frame' = [frame EXCEPT ![t] =
                NewFrame(kind, user_id, FALSE, course_id, assignment_id, "top")]
         /\ result' = [result EXCEPT ![t] = NoResult]
    ELSE /\ pc' = pc
         /\ frame' = [frame EXCEPT ![t] = NoFrame]
         /\ result' = [result EXCEPT ![t] = Raise("User " \o user_id \o " not found")]

\* The entry of sync_user_full.
EnterFull(t, user_id) ==
    IF user_id \in Users
    THEN /\ pc' = [pc EXCEPT ![t] = "full_create"]
         /\ full' = [full EXCEPT ![t] = [NoFull EXCEPT !.user_id = user_id]]
         /\ result' = [result EXCEPT ![t] = NoResult]
    ELSE /\ pc' = pc
         /\ full' = [full EXCEPT ![t] = NoFull]
         /\ result' = [result EXCEPT ![t] = Raise("User " \o user_id \o " not found")]

\* A call of a public operation by an idle thread. sync_user_full counts
\* twice: it makes a call of sync_user_courses of its own.
Called(t, n) ==
    /\ pc[t] = "idle"
    /\ calls + n <= MaxCalls
    /\ calls' = calls + n

(* --------------------------- public operations ------------------------- *)

sync_user_courses(t, user_id, force_refresh) ==
    /\ Called(t, 1)
    /\ EnterCourses(t, user_id, force_refresh)
    /\ full' = [full EXCEPT ![t] = NoFull]
    /\ UNCHANGED <<client, rerun, poll, background, now, sync_jobs, running_syncs, db, net_requests>>

sync_course_assignments(t, user_id, course_id) ==
    /\ Called(t, 1)
    /\ EnterItems(t, "assignments", user_id, course_id, "")
    /\ full' = [full EXCEPT ![t] = NoFull]
    /\ UNCHANGED <<client, rerun, poll, background, now, sync_jobs, running_syncs, db, net_requests>>

sync_assignment_submissions(t, user_id, course_id, assignment_id) ==
    /\ Called(t, 1)
    /\ EnterItems(t, "submissions", user_id, "", assignment_id)
    /\ full' = [full EXCEPT ![t] = NoFull]
    /\ UNCHANGED <<client, rerun, poll, background, now, sync_jobs, running_syncs, db, net_requests>>

sync_user_full(t, user_id) ==
    /\ Called(t, 2)
    /\ EnterFull(t, user_id)
    /\ frame' = [frame EXCEPT ![t] = NoFrame]
    /\ UNCHANGED <<client, rerun, poll, background, now, sync_jobs, running_syncs, db, net_requests>>

trigger_sync(t, user_id, sync_type) ==
    /\ Called(t, IF sync_type = "full" THEN 2 ELSE 1)
    /\ CASE sync_type = "full" ->
              /\ EnterFull(t, user_id)
              /\ frame' = [frame EXCEPT ![t] = NoFrame]
         [] sync_type = "courses" ->
              /\ EnterCourses(t, user_id, TRUE)
              /\ full' = [full EXCEPT ![t] = NoFull]
         [] OTHER ->
              /\ pc' = pc
              /\ frame' = [frame EXCEPT ![t] = NoFrame]
              /\ full' = [full EXCEPT ![t] = NoFull]
              /\ result' = [result EXCEPT ![t] =
                    Raise("Unknown sync type: " \o sync_type)]
    /\ UNCHANGED <<client, rerun, poll, background, now, sync_jobs, running_syncs, db, net_requests>>

(* --------------------------- the steps of a collection sync ------------ *)

\* job = self._create_sync_job(user_id, kind)
CreateJob(t) ==
    /\ pc[t] = "create"
    /\ sync_jobs' = CreateSyncJob(sync_jobs, frame[t].user_id, frame[t].kind, now)
    /\ frame' = [frame EXCEPT ![t].job_id = JobId(frame[t].user_id, frame[t].kind, now)]
    /\ pc' = [pc EXCEPT ![t] = IF frame[t].kind = "courses" THEN "add" ELSE "run"]
    /\ UNCHANGED <<client, rerun, poll, background, now, running_syncs, db, net_requests, calls, full, result>>

\* self.running_syncs.add(user_id)
AddRunning(t) ==
    /\ pc[t] = "add"
    /\ running_syncs' = running_syncs \cup {frame[t].user_id}
    /\ pc' = [pc EXCEPT ![t] = "run"]
    /\ UNCHANGED <<client, rerun, poll, background, now, sync_jobs, db, net_requests, calls, frame, full, result>>

\* self._update_sync_job(job.id, status=RUNNING, started_at=utcnow())
MarkRunning(t) ==
    /\ pc[t] = "run"
    /\ sync_jobs' = UpdateSyncJob(sync_jobs, frame[t].job_id,
                        [status |-> RUNNING, started_at |-> Some(now)])
    /\ pc' = [pc EXCEPT ![t] = "fetch"]
    /\ UNCHANGED <<client, rerun, poll, background, now, running_syncs, db, net_requests, calls, frame, full, result>>

\* The except clause of a collection sync: the job is marked failed with
\* str(e) and the exception goes on to the caller.
FailedUpdate(e) ==
    [status |-> FAILED, error_message |-> Some(e), completed_at |-> Some(now)]

\* client = self._get_canvas_client(user); data = client.get_...(...) raises.
\* decrypt_token raises (empty text) before any request is sent.
FetchFails(t) ==
    /\ pc[t] = "fetch"
    /\ \E e \in FetchErrors :
        /\ net_requests' = IF e = "" THEN net_requests ELSE net_requests + 1
        /\ sync_jobs' = UpdateSyncJob(sync_jobs, frame[t].job_id, FailedUpdate(e))
        /\ frame' = [frame EXCEPT ![t].exc = Some(e)]
    /\ pc' = [pc EXCEPT ![t] = AfterTerminal(frame[t].kind)]
    /\ UNCHANGED <<client, rerun, poll, background, now, running_syncs, db, calls, full, result>>

\* The fetch returns the collection; items_total = len(data).
FetchReturns(t) ==
    /\ pc[t] = "fetch"
    /\ \E data \in Responses :
        /\ sync_jobs' = UpdateSyncJob(sync_jobs, frame[t].job_id,
                            [items_total |-> Len(data)])
        /\ frame' = [frame EXCEPT ![t].data = data, ![t].i = 1]
        /\ pc' = [pc EXCEPT ![t] = IF Len(data) = 0 THEN "complete" ELSE "save"]
    /\ net_requests' = net_requests + 1
    /\ UNCHANGED <<client, rerun, poll, background, now, running_syncs, db, calls, full, result>>

\* The table and the mirror of the item that a sync of this kind saves.
SaveMirror(fr, item) ==
    CASE fr.kind = "courses" ->
            /\ courses' = Save(courses, CourseKey(item.id), CourseOf(item))
            /\ UNCHANGED <<assignments, submissions>>
      [] fr.kind = "assignments" ->
            /\ assignments' = Save(assignments, AssignKey(item.id),
                                   AssignmentOf(item, fr.course_id))
            /\ UNCHANGED <<courses, submissions>>
      [] fr.kind = "submissions" ->
            /\ submissions' = Save(submissions, SubKey(item.id),
                                   SubmissionOf(item, fr.assignment_id))
            /\ UNCHANGED <<courses, assignments>>

\* One item on which the loop body raises: logged, and the loop goes on.
SkipItem(t) ==
    /\ pc[t] = "save"
    /\ LET fr == frame[t]
           item == fr.data[fr.i]
       IN /\ item.fails
          /\ frame' = [frame EXCEPT ![t].i = fr.i + 1]
          /\ pc' = [pc EXCEPT ![t] = AfterItem(fr)]
    /\ UNCHANGED <<client, rerun, poll, background, now, sync_jobs, running_syncs, db, net_requests, calls, full, result>>

\* One item converted and saved; courses_synced += 1.
SaveItem(t) ==
    /\ pc[t] = "save"
    /\ LET fr == frame[t]
           item == fr.data[fr.i]
       IN /\ ~item.fails
          /\ SaveMirror(fr, item)
          /\ frame' = [frame EXCEPT ![t].synced = fr.synced + 1]
    /\ pc' = [pc EXCEPT ![t] = "prog"]
    /\ UNCHANGED <<client, rerun, poll, background, now, sync_jobs, running_syncs, net_requests, calls, full, result>>

\* self._update_sync_job(job.id, items_processed=courses_synced)
UpdateProgress(t) ==
    /\ pc[t] = "prog"
    /\ sync_jobs' = UpdateSyncJob(sync_jobs, frame[t].job_id,
                        [items_processed |-> frame[t].synced])
    /\ frame' = [frame EXCEPT ![t].i = frame[t].i + 1]
    /\ pc' = [pc EXCEPT ![t] = AfterItem(frame[t])]
    /\ UNCHANGED <<client, rerun, poll, background, now, running_syncs, db, net_requests, calls, full, result>>

\* The update after the loop: COMPLETED, completed_at, items_processed.
Complete(t) ==
    /\ pc[t] = "complete"
    /\ sync_jobs' = UpdateSyncJob(sync_jobs, frame[t].job_id,
                        [status |-> COMPLETED, completed_at |-> Some(now),
                         items_processed |-> frame[t].synced])
    /\ pc' = [pc EXCEPT ![t] = AfterTerminal(frame[t].kind)]
    /\ UNCHANGED <<client, rerun, poll, background, now, running_syncs, db, net_requests, calls, frame, full, result>>

\* A finally block that leaves the set as it is.
DiscardRunningNever(running, user_id) == running

\* finally: self.running_syncs.discard(user_id)
DiscardRunning(running, user_id) == running \ {user_id}

Cleanup(t) ==
    /\ pc[t] = "finally"
    /\ running_syncs' = DiscardRunning(running_syncs, frame[t].user_id)
    /\ pc' = [pc EXCEPT ![t] = "ret"]
    /\ UNCHANGED <<client, rerun, poll, background, now, sync_jobs, db, net_requests, calls, frame, full, result>>

\* return job.id, or the exception leaves the operation.
Return(t) ==
    /\ pc[t] = "ret"
    /\ IF frame[t].caller = "top"
       THEN /\ pc' = [pc EXCEPT ![t] = "idle"]
            /\ result' = [result EXCEPT ![t] =
                    IF frame[t].exc # None THEN Raise(frame[t].exc[1])
                    ELSE ReturnJob(frame[t].job_id)]
            /\ frame' = [frame EXCEPT ![t] = NoFrame]
       ELSE /\ pc' = [pc EXCEPT ![t] =
                    IF frame[t].kind = "courses" THEN "full_after" ELSE "full_loop"]
            /\ result' = result
            /\ frame' = [frame EXCEPT ![t] =
                    [NoFrame EXCEPT !.job_id = frame[t].job_id,
                                    !.exc = frame[t].exc]]
    /\ UNCHANGED <<client, rerun, poll, background, now, sync_jobs, running_syncs, db, net_requests, calls, full>>

(* --------------------------- sync_user_full ---------------------------- *)

\* job = self._create_sync_job(user_id, 'full')
FullCreateJob(t) ==
    /\ pc[t] = "full_create"
    /\ sync_jobs' = CreateSyncJob(sync_jobs, full[t].user_id, "full", now)
    /\ full' = [full EXCEPT ![t].job_id = JobId(full[t].user_id, "full", now)]
    /\ pc' = [pc EXCEPT ![t] = "full_run"]
    /\ UNCHANGED <<client, rerun, poll, background, now, running_syncs, db, net_requests, calls, frame, result>>

\* The job is marked RUNNING, and sync_user_courses(user_id, force_refresh=True)
\* is entered: forced, it passes the running check.
FullMarkRunning(t) ==
    /\ pc[t] = "full_run"
    /\ sync_jobs' = UpdateSyncJob(sync_jobs, full[t].job_id,
                        [status |-> RUNNING, started_at |-> Some(now)])
    /\ frame' = [frame EXCEPT ![t] =
            NewFrame("courses", full[t].user_id, TRUE, "", "", "full")]
    /\ pc' = [pc EXCEPT ![t] = "create"]
    /\ UNCHANGED <<client, rerun, poll, background, now, running_syncs, db, net_requests, calls, full, result>>

\* sync_user_courses raised: the full job is marked FAILED and the exception
\* leaves sync_user_full.
FullFails(t) ==
    /\ pc[t] = "full_after"
    /\ frame[t].exc # None
    /\ sync_jobs' = UpdateSyncJob(sync_jobs, full[t].job_id,
                        FailedUpdate(frame[t].exc[1]))
    /\ result' = [result EXCEPT ![t] = Raise(frame[t].exc[1])]
    /\ pc' = [pc EXCEPT ![t] = "idle"]
    /\ frame' = [frame EXCEPT ![t] = NoFrame]
    /\ full' = [full EXCEPT ![t] = NoFull]
    /\ UNCHANGED <<client, rerun, poll, background, now, running_syncs, db, net_requests, calls>>

\* A sync_user_full that goes on to the assignments whatever became of its
\* courses phase.
FullAfterCoursesUnchecked(t) ==
    /\ pc[t] = "full_after"
    /\ full' = [full EXCEPT ![t].todo =
            {c.canvas_course_id : c \in GetCoursesForUser(full[t].user_id)}]
    /\ pc' = [pc EXCEPT ![t] = "full_loop"]
    /\ UNCHANGED <<client, rerun, poll, background, now, sync_jobs, running_syncs, db, net_requests, calls, frame, result>>

\* courses_job = self.sync_jobs.get(courses_job_id); when it is COMPLETED the
\* stored courses are read, else the loop is skipped.
FullAfterCourses(t) ==
    /\ pc[t] = "full_after"
    /\ frame[t].exc = None
    /\ IF /\ frame[t].job_id \in DOMAIN sync_jobs
          /\ sync_jobs[frame[t].job_id].status = COMPLETED
       THEN /\ full' = [full EXCEPT ![t].todo =
                    {c.canvas_course_id : c \in GetCoursesForUser(full[t].user_id)}]
            /\ pc' = [pc EXCEPT ![t] = "full_loop"]
       ELSE /\ full' = full
            /\ pc' = [pc EXCEPT ![t] = "full_complete"]
    /\ UNCHANGED <<client, rerun, poll, background, now, sync_jobs, running_syncs, db, net_requests, calls, frame, result>>

\* for course in courses: self.sync_course_assignments(user_id, course.canvas_course_id)
FullNextCourse(t) ==
    /\ pc[t] = "full_loop"
    /\ full[t].todo # {}
    /\ \E c \in full[t].todo :
        /\ full' = [full EXCEPT ![t].todo = @ \ {c}]
        /\ frame' = [frame EXCEPT ![t] =
                NewFrame("assignments", full[t].user_id, FALSE, c, "", "full")]
    /\ pc' = [pc EXCEPT ![t] = "create"]
    /\ UNCHANGED <<client, rerun, poll, background, now, sync_jobs, running_syncs, db, net_requests, calls, result>>

FullLoopEnds(t) ==
    /\ pc[t] = "full_loop"
    /\ full[t].todo = {}
    /\ pc' = [pc EXCEPT ![t] = "full_complete"]
    /\ UNCHANGED <<client, rerun, poll, background, now, sync_jobs, running_syncs, db, net_requests, calls, frame, full, result>>

\* The full job is marked COMPLETED and its id returned.
FullComplete(t) ==
    /\ pc[t] = "full_complete"
    /\ sync_jobs' = UpdateSyncJob(sync_jobs, full[t].job_id,
                        [status |-> COMPLETED, completed_at |-> Some(now)])
    /\ result' = [result EXCEPT ![t] = ReturnJob(full[t].job_id)]
    /\ pc' = [pc EXCEPT ![t] = "idle"]
    /\ frame' = [frame EXCEPT ![t] = NoFrame]
    /\ full' = [full EXCEPT ![t] = NoFull]
    /\ UNCHANGED <<client, rerun, poll, background, now, running_syncs, db, net_requests, calls>>

(* --------------------------- the clock --------------------------------- *)

Tick ==
    /\ now < MaxClock
    /\ now' = now + 1
    /\ UNCHANGED <<client, rerun, poll, background, sync_jobs, running_syncs, db, net_requests, calls, pc, frame,
                   full, result>>

(* --------------------------- CanvasAPIClient --------------------------- *)

\* The clock reading at which the client is constructed: time.time() is far
\* from last_request_time = 0, so the first request is not paced.
StartTime == 1

\* self.min_request_interval, one tick.
MinInterval == 1

\* The local time zones the process may run in (local minus UTC, in ticks).
UtcOffsets == {0 - 1, 0, 1}

\* The cache keys of the getters called: get_courses() builds
\* f"courses_{enrollment_type}_{enrollment_role}".
CacheKeys == {"courses_None_None"}

\* response.json(): a JSON array of entities, given by their ids.
Payloads == {<<>>} \cup {<<i>> : i \in RemoteIds}

\* response.status_code
Statuses == {200, 304, 401, 404, 429, 500}

\* A header is absent (None), or present with a text that int() rejects,
\* or present with the decimal text of an integer.
Junk == [numeral |-> FALSE, value |-> 0]
Numeral(n) == [numeral |-> TRUE, value |-> n]

\* X-Rate-Limit-Limit, X-Rate-Limit-Remaining, X-Rate-Limit-Reset: all
\* three numerals, or one of them absent or not a numeral, or none sent.
NoHeaders == [limit |-> None, remaining |-> None, reset |-> None]

FullHeaders ==
    [limit : {Some(Numeral(10))},
     remaining : {Some(Numeral(n)) : n \in {0 - 1, 0, 1}},
     reset : {Some(Numeral(n)) : n \in 2..MaxTime}]

ExhaustedHeaders ==
    [limit |-> Some(Numeral(10)), remaining |-> Some(Numeral(0)),
     reset |-> Some(Numeral(MaxTime))]

DefectiveHeaders ==
    {NoHeaders}
        \cup {[ExhaustedHeaders EXCEPT !.limit = v] : v \in {None, Some(Junk)}}
        \cup {[ExhaustedHeaders EXCEPT !.remaining = v] : v \in {None, Some(Junk)}}
        \cup {[ExhaustedHeaders EXCEPT !.reset = v] : v \in {None, Some(Junk)}}

RateLimitHeaders == FullHeaders \cup DefectiveHeaders

\* What session.request() gives: a response, or one of the exceptions of
\* requests.exceptions.
NetworkErrors == {"Timeout", "ConnectionError"}

\* The outcomes of a request: a 200 with any headers and payload, another
\* status with or without headers, a network error.
Outcomes ==
    [error : {"none"}, status : {200}, headers : RateLimitHeaders,
     payload : Payloads]
        \cup [error : {"none"}, status : Statuses \ {200},
               headers : {NoHeaders, ExhaustedHeaders}, payload : {<<>>}]
        \cup [error : NetworkErrors, status : {0}, headers : {NoHeaders},
               payload : {<<>>}]

IsResponse(o) == o.error = "none"

\* int(text) takes the text: it is a numeral.
IsNumeral(h) == h # None /\ h[1].numeral

\* datetime.fromtimestamp(ts): the naive local time of the epoch time ts.
FromTimestamp(ts) == ts + utc_offset

\* RateLimitInfo.is_exceeded
IsExceeded(info) == info.remaining <= 0

\* RateLimitInfo.time_until_reset: self.reset_time - datetime.utcnow()
TimeUntilReset(info) == info.reset_time - clock

\* A quota update that forgets the stored quota when a header is missing.
UpdateRateLimitInfoOrReset(info, headers) ==
    IF IsNumeral(headers.limit) /\ IsNumeral(headers.remaining) /\ IsNumeral(headers.reset)
    THEN Some([limit |-> headers.limit[1].value,
               remaining |-> headers.remaining[1].value,
               reset_time |-> FromTimestamp(headers.reset[1].value)])
    ELSE None

\* _update_rate_limit_info: with all three headers present and int() taking
\* each of them the quota is replaced; a missing header fails all([...]),
\* a ValueError is swallowed, and the stored quota stays.
UpdateRateLimitInfo(info, headers) ==
    IF headers.limit # None /\ headers.remaining # None /\ headers.reset # None
    THEN IF IsNumeral(headers.limit) /\ IsNumeral(headers.remaining)
              /\ IsNumeral(headers.reset)
         THEN Some([limit |-> headers.limit[1].value,
                    remaining |-> headers.remaining[1].value,
                    reset_time |-> FromTimestamp(headers.reset[1].value)])
         ELSE info
    ELSE info

\* The exception that _make_request raises on an outcome, None when it
\* returns the response (response.ok: status below 400).
RaisedBy(o) ==
    IF ~IsResponse(o)
    THEN IF o.error = "Timeout"
         THEN Some([type |-> "CanvasAPIError", msg |-> "Request timeout"])
         ELSE Some([type |-> "CanvasAPIError", msg |-> "Connection error"])
    ELSE CASE o.status = 401 ->
                Some([type |-> "AuthenticationError",
                      msg |-> "Invalid or expired access token"])
           [] o.status = 404 ->
                Some([type |-> "NotFoundError", msg |-> "Resource not found"])
           [] o.status = 429 ->
                Some([type |-> "RateLimitError", msg |-> "Rate limit exceeded"])
           [] o.status >= 400 /\ o.status \notin {401, 404, 429} ->
                Some([type |-> "CanvasAPIError",
                      msg |-> "API error " \o Str(o.status)])
           [] OTHER -> None

\* A lookup that takes every stored entry for fresh.
IsFreshAlways(key) == key \in DOMAIN cache

\* _get_cached: the entry is there and
\* datetime.utcnow() - timestamp < timedelta(seconds=self.cache_ttl)
IsFresh(key) ==
    /\ key \in DOMAIN cache
    /\ clock - cache[key].timestamp < cache_ttl

\* del self.cache[key]
Evict(c, key) == [k \in DOMAIN c \ {key} |-> c[k]]

\* self.cache[key] = (data, datetime.utcnow())
SetCache(c, key, data) ==
    [k \in DOMAIN c \cup {key} |->
        IF k = key THEN [data |-> data, timestamp |-> clock] ELSE c[k]]

\* Python's truth value of what _get_cached returned: None, an empty list
\* and an empty dict are false.
Truthy(cached) == cached # None /\ Len(cached[1]) > 0

NoCFrame == [op |-> "none", key |-> "", cached |-> None, wake |-> 0, outcome |-> None]

NoCResult == [tag |-> "init", type |-> "", msg |-> "", data |-> <<>>]

ReturnData(data) == [tag |-> "data", type |-> "", msg |-> "", data |-> data]
RaiseError(e) == [tag |-> "raise", type |-> e.type, msg |-> e.msg, data |-> <<>>]

ClientConstructed ==
    /\ clock = StartTime
    /\ cache = <<>>
    /\ cache_ttl = DefaultTTL
    /\ rate_limit_info = None
    /\ last_request_time = 0
    /\ sent = <<>>
    /\ ccalls = 0
    /\ cpc = [t \in Threads |-> "idle"]
    /\ cframe = [t \in Threads |-> NoCFrame]
    /\ cresult = [t \in Threads |-> NoCResult]

(* --------------------------- the client's operations ------------------- *)

TTLs == 1..MaxTTL

\* A call of an operation of the client by an idle thread.
ClientCalled(t) ==
    /\ cpc[t] = "idle"
    /\ ccalls < MaxClientCalls
    /\ ccalls' = ccalls + 1

\* get_courses(): a cached getter, as all the getters are.
get_courses(t) ==
    /\ ClientCalled(t)
    /\ cpc' = [cpc EXCEPT ![t] = "lookup"]
    /\ cframe' = [cframe EXCEPT ![t] =
            [NoCFrame EXCEPT !.op = "get_courses", !.key = "courses_None_None"]]
    /\ cresult' = [cresult EXCEPT ![t] = NoCResult]
    /\ UNCHANGED <<sync, rerun, poll, background, clock, utc_offset, cache, cache_ttl,
                   rate_limit_info, last_request_time, sent>>

\* create_submission(): goes to _make_request without the cache.
create_submission(t) ==
    /\ ClientCalled(t)
    /\ cpc' = [cpc EXCEPT ![t] = "pace"]
    /\ cframe' = [cframe EXCEPT ![t] = [NoCFrame EXCEPT !.op = "create_submission"]]
    /\ cresult' = [cresult EXCEPT ![t] = NoCResult]
    /\ UNCHANGED <<sync, rerun, poll, background, clock, utc_offset, cache, cache_ttl,
                   rate_limit_info, last_request_time, sent>>

\* set_cache_ttl(ttl_seconds)
set_cache_ttl(ttl) ==
    /\ cache_ttl # ttl
    /\ cache_ttl' = ttl
    /\ UNCHANGED <<sync, rerun, poll, background, clock, utc_offset, cache, rate_limit_info,
                   last_request_time, sent, ccalls, cpc, cframe, cresult>>

\* clear_cache()
clear_cache ==
    /\ cache # <<>>
    /\ cache' = <<>>
    /\ UNCHANGED <<sync, rerun, poll, background, clock, utc_offset, cache_ttl, rate_limit_info,
                   last_request_time, sent, ccalls, cpc, cframe, cresult>>

\* cached = self._get_cached(cache_key)
GetCached(t) ==
    /\ cpc[t] = "lookup"
    /\ IF IsFresh(cframe[t].key)
       THEN /\ cframe' = [cframe EXCEPT ![t].cached = Some(cache[cframe[t].key].data)]
            /\ cache' = cache
       ELSE /\ cframe' = [cframe EXCEPT ![t].cached = None]
            /\ cache' = Evict(cache, cframe[t].key)
    /\ cpc' = [cpc EXCEPT ![t] = "test"]
    /\ UNCHANGED <<sync, rerun, poll, background, clock, utc_offset, cache_ttl, rate_limit_info,
                   last_request_time, sent, ccalls, cresult>>

\* if cached: return cached
TestCached(t) ==
    /\ cpc[t] = "test"
    /\ IF Truthy(cframe[t].cached)
       THEN /\ cpc' = [cpc EXCEPT ![t] = "idle"]
            /\ cresult' = [cresult EXCEPT ![t] = ReturnData(cframe[t].cached[1])]
            /\ cframe' = [cframe EXCEPT ![t] = NoCFrame]
       ELSE /\ cpc' = [cpc EXCEPT ![t] = "pace"]
            /\ cresult' = cresult
            /\ cframe' = cframe
    /\ UNCHANGED <<sync, rerun, poll, background, clock, utc_offset, cache, cache_ttl,
                   rate_limit_info, last_request_time, sent, ccalls>>

\* _make_request, lines 82-85: the pacing. time.sleep() returns no earlier
\* than asked.
Pace(t) ==
    /\ cpc[t] = "pace"
    /\ LET time_since_last == clock - last_request_time
       IN IF time_since_last < MinInterval
          THEN /\ cframe' = [cframe EXCEPT ![t].wake =
                        clock + (MinInterval - time_since_last)]
               /\ cpc' = [cpc EXCEPT ![t] = "pace_sleep"]
          ELSE /\ cframe' = cframe
               /\ cpc' = [cpc EXCEPT ![t] = "quota"]
    /\ UNCHANGED <<sync, rerun, poll, background, clock, utc_offset, cache, cache_ttl,
                   rate_limit_info, last_request_time, sent, ccalls, cresult>>

PaceWake(t) ==
    /\ cpc[t] = "pace_sleep"
    /\ clock >= cframe[t].wake
    /\ cpc' = [cpc EXCEPT ![t] = "quota"]
    /\ UNCHANGED <<sync, rerun, poll, background, clock, utc_offset, cache, cache_ttl,
                   rate_limit_info, last_request_time, sent, ccalls, cframe, cresult>>

\* _make_request, lines 88-92: the wait for the quota's reset.
CheckQuota(t) ==
    /\ cpc[t] = "quota"
    /\ IF /\ rate_limit_info # None
          /\ IsExceeded(rate_limit_info[1])
          /\ TimeUntilReset(rate_limit_info[1]) > 0
       THEN /\ cframe' = [cframe EXCEPT ![t].wake =
                    clock + TimeUntilReset(rate_limit_info[1])]
            /\ cpc' = [cpc EXCEPT ![t] = "quota_sleep"]
       ELSE /\ cframe' = cframe
            /\ cpc' = [cpc EXCEPT ![t] = "send"]
    /\ UNCHANGED <<sync, rerun, poll, background, clock, utc_offset, cache, cache_ttl,
                   rate_limit_info, last_request_time, sent, ccalls, cresult>>

QuotaWake(t) ==
    /\ cpc[t] = "quota_sleep"
    /\ clock >= cframe[t].wake
    /\ cpc' = [cpc EXCEPT ![t] = "send"]
    /\ UNCHANGED <<sync, rerun, poll, background, clock, utc_offset, cache, cache_ttl,
                   rate_limit_info, last_request_time, sent, ccalls, cframe, cresult>>

\* self.last_request_time = time.time(); self.session.request(...) sends.
SendRequest(t) ==
    /\ cpc[t] = "send"
    /\ last_request_time' = clock
    /\ sent' = Append(sent, clock)
    /\ cpc' = [cpc EXCEPT ![t] = "await"]
    /\ UNCHANGED <<sync, rerun, poll, background, clock, utc_offset, cache, cache_ttl,
                   rate_limit_info, ccalls, cframe, cresult>>

\* session.request() returns a response or raises.
Respond(t) ==
    /\ cpc[t] = "await"
    /\ \E o \in Outcomes : cframe' = [cframe EXCEPT ![t].outcome = Some(o)]
    /\ cpc' = [cpc EXCEPT ![t] = "handle"]
    /\ UNCHANGED <<sync, rerun, poll, background, clock, utc_offset, cache, cache_ttl,
                   rate_limit_info, last_request_time, sent, ccalls, cresult>>

\* _make_request, lines 101-121: the quota is updated from a response, and
\* the outcome is raised or the response returned; a getter goes on to
\* cache response.json(), create_submission returns it.
HandleOutcome(t) ==
    /\ cpc[t] = "handle"
    /\ LET o == cframe[t].outcome[1]
       IN /\ rate_limit_info' =
                IF IsResponse(o) THEN UpdateRateLimitInfo(rate_limit_info, o.headers)
                ELSE rate_limit_info
          /\ IF RaisedBy(o) # None
             THEN /\ cpc' = [cpc EXCEPT ![t] = "idle"]
                  /\ cresult' = [cresult EXCEPT ![t] = RaiseError(RaisedBy(o)[1])]
                  /\ cframe' = [cframe EXCEPT ![t] = NoCFrame]
             ELSE IF cframe[t].op = "get_courses"
                  THEN /\ cpc' = [cpc EXCEPT ![t] = "store"]
                       /\ cresult' = cresult
                       /\ cframe' = cframe
                  ELSE /\ cpc' = [cpc EXCEPT ![t] = "idle"]
                       /\ cresult' = [cresult EXCEPT ![t] = ReturnData(o.payload)]
                       /\ cframe' = [cframe EXCEPT ![t] = NoCFrame]
    /\ UNCHANGED <<sync, rerun, poll, background, clock, utc_offset, cache, cache_ttl,
                   last_request_time, sent, ccalls>>

\* self._set_cache(cache_key, data); return data
StoreCache(t) ==
    /\ cpc[t] = "store"
    /\ cache' = SetCache(cache, cframe[t].key, cframe[t].outcome[1].payload)
    /\ cpc' = [cpc EXCEPT ![t] = "idle"]
    /\ cresult' = [cresult EXCEPT ![t] = ReturnData(cframe[t].outcome[1].payload)]
    /\ cframe' = [cframe EXCEPT ![t] = NoCFrame]
    /\ UNCHANGED <<sync, rerun, poll, background, clock, utc_offset, cache_ttl, rate_limit_info,
                   last_request_time, sent, ccalls>>

ClientTick ==
    /\ clock < MaxTime
    /\ clock' = clock + 1
    /\ UNCHANGED <<sync, rerun, poll, background, utc_offset, cache, cache_ttl, rate_limit_info,
                   last_request_time, sent, ccalls, cpc, cframe, cresult>>

(* --------------------------- the cache --------------------------------- *)

\* The getters read through the cache: get_courses is called, the TTL is
\* set and the cache cleared at any time; the responses carry no quota
\* headers.
PlainOutcomes == {o \in Outcomes : o.headers = NoHeaders}

CacheInit ==
    /\ SyncConstructed
    /\ ClientConstructed
    /\ utc_offset = 0
    /\ remote = None
    /\ first_run = None
    /\ workflow_state = AllPublished
    /\ PollConstructed
    /\ BackgroundAsleep
    /\ token_expires_at = NeverExpires

CacheRespond(t) ==
    /\ Respond(t)
    /\ cframe'[t].outcome[1] \in PlainOutcomes

CacheNext ==
    \/ ClientTick
    \/ \E ttl \in TTLs : set_cache_ttl(ttl)
    \/ clear_cache
    \/ \E t \in Threads :
        \/ get_courses(t)
        \/ GetCached(t)
        \/ TestCached(t)
        \/ Pace(t)
        \/ PaceWake(t)
        \/ CheckQuota(t)
        \/ SendRequest(t)
        \/ CacheRespond(t)
        \/ HandleOutcome(t)
        \/ StoreCache(t)

CacheSpec == CacheInit /\ [][CacheNext]_vars

(* --------------------------- the requests ------------------------------ *)

\* Requests go through _make_request without the cache: create_submission
\* is called, in any local time zone; the payloads are empty.
RequestOutcomes == {o \in Outcomes : o.payload = <<>>}

RequestInit ==
    /\ SyncConstructed
    /\ ClientConstructed
    /\ utc_offset \in UtcOffsets
    /\ remote = None
    /\ first_run = None
    /\ workflow_state = AllPublished
    /\ PollConstructed
    /\ BackgroundAsleep
    /\ token_expires_at = NeverExpires

RequestRespond(t) ==
    /\ Respond(t)
    /\ cframe'[t].outcome[1] \in RequestOutcomes

RequestNext ==
    \/ ClientTick
    \/ \E t \in Threads :
        \/ create_submission(t)
        \/ Pace(t)
        \/ PaceWake(t)
        \/ CheckQuota(t)
        \/ QuotaWake(t)
        \/ SendRequest(t)
        \/ RequestRespond(t)
        \/ HandleOutcome(t)

RequestSpec == RequestInit /\ [][RequestNext]_vars

(* --------------------------- specification ----------------------------- *)

Init ==
    /\ SyncConstructed
    /\ ClientConstructed
    /\ utc_offset = 0
    /\ remote = None
    /\ first_run = None
    /\ workflow_state = AllPublished
    /\ PollConstructed
    /\ BackgroundAsleep
    /\ token_expires_at = NeverExpires


SyncTypes == {"full", "courses", "grades"}

\* The user ids that the callers pass: one user of users_db, and an id
\* that users_db does not hold.
UserArgs == {"u1", UnknownUser}

Next ==
    \/ Tick
    \/ \E t \in Threads :
        \/ \E u \in UserArgs :
            \/ \E f \in BOOLEAN : sync_user_courses(t, u, f)
            \/ \E c \in CourseArgs : sync_course_assignments(t, u, c)
            \/ \E c \in CourseArgs, a \in CourseArgs :
                    sync_assignment_submissions(t, u, c, a)
            \/ sync_user_full(t, u)
            \/ \E ty \in SyncTypes : trigger_sync(t, u, ty)
        \/ CreateJob(t)
        \/ AddRunning(t)
        \/ MarkRunning(t)
        \/ FetchFails(t)
        \/ FetchReturns(t)
        \/ SkipItem(t)
        \/ SaveItem(t)
        \/ UpdateProgress(t)
        \/ Complete(t)
        \/ Cleanup(t)
        \/ Return(t)
        \/ FullCreateJob(t)
        \/ FullMarkRunning(t)
        \/ FullFails(t)
        \/ FullAfterCourses(t)
        \/ FullNextCourse(t)
        \/ FullLoopEnds(t)
        \/ FullComplete(t)

Spec == Init /\ [][Next]_vars

(* ---------- sync_course_assignments twice, the remote unchanged -------- *)

\* The remote course and its assignment list, the same for both runs.
RemoteCourses == [course_id : CourseArgs, data : Responses]

RerunInit ==
    /\ SyncConstructed
    /\ ClientConstructed
    /\ utc_offset = 0
    /\ remote \in {Some(r) : r \in RemoteCourses}
    /\ first_run = None
    /\ workflow_state \in [RemoteIds -> WorkflowStates]
    /\ PollConstructed
    /\ BackgroundAsleep
    /\ token_expires_at = NeverExpires

\* A run starts when no run is in progress; the second one after the
\* mirrors of the first were read.
RerunCall(t) ==
    /\ \A s \in Threads : pc[s] = "idle"
    /\ calls = 0 \/ first_run # None
    /\ sync_course_assignments(t, "u1", remote[1].course_id)

\* client.get_assignments(course_id) returns the remote list.
RerunFetch(t) ==
    /\ FetchReturns(t)
    /\ frame'[t].data = remote[1].data

\* The assignment mirrors are read between the two runs.
RerunSnapshot ==
    /\ \A s \in Threads : pc[s] = "idle"
    /\ calls = 1
    /\ first_run = None
    /\ first_run' = Some(assignments)
    /\ UNCHANGED <<sync, client, poll, background, remote, workflow_state>>

RerunNext ==
    \/ Tick
    \/ RerunSnapshot
    \/ \E t \in Threads :
        \/ RerunCall(t)
        \/ CreateJob(t)
        \/ MarkRunning(t)
        \/ RerunFetch(t)
        \/ SkipItem(t)
        \/ SaveItem(t)
        \/ UpdateProgress(t)
        \/ Complete(t)
        \/ Return(t)

RerunSpec == RerunInit /\ [][RerunNext]_vars

(* ---------- _update_sync_job attribute by attribute, and a poller ------ *)

\* Thread t is in no _update_sync_job.
Settled(t) == setting[t].keys = <<>>

\* _update_sync_job(job_id, **updates), lines 91-92: the job is looked up;
\* its attributes are then set one at a time, in the order of the keyword
\* arguments. An id that the registry does not hold sets nothing.
CallUpdateSyncJob(t, job_id, updates, keys) ==
    setting' = [setting EXCEPT ![t] =
        IF job_id \in DOMAIN sync_jobs
        THEN [job_id |-> job_id, updates |-> updates, keys |-> keys]
        ELSE NoSetting]

\* setattr(job, key, value), lines 93-95: one attribute of the job.
SetAttr(t) ==
    /\ ~Settled(t)
    /\ LET k == Head(setting[t].keys)
       IN sync_jobs' = [sync_jobs EXCEPT ![setting[t].job_id][k] = setting[t].updates[k]]
    /\ setting' = [setting EXCEPT ![t] =
            IF Len(setting[t].keys) = 1 THEN NoSetting
            ELSE [@ EXCEPT !.keys = Tail(@)]]
    /\ UNCHANGED <<client, rerun, background, handed, now, running_syncs, db,
                   net_requests, calls, pc, frame, full, result>>

\* self._update_sync_job(job.id, status=RUNNING, started_at=utcnow())
UpdateRunning(t) ==
    /\ pc[t] = "run"
    /\ CallUpdateSyncJob(t, frame[t].job_id,
            [status |-> RUNNING, started_at |-> Some(now)],
            <<"status", "started_at">>)
    /\ pc' = [pc EXCEPT ![t] = "fetch"]
    /\ UNCHANGED <<client, rerun, background, handed, now, sync_jobs, running_syncs,
                   db, net_requests, calls, frame, full, result>>

\* The fetch raises: _update_sync_job(job.id, status=FAILED,
\* error_message=str(e), completed_at=utcnow()).
UpdateFailed(t) ==
    /\ pc[t] = "fetch"
    /\ Settled(t)
    /\ \E e \in FetchErrors :
        /\ net_requests' = IF e = "" THEN net_requests ELSE net_requests + 1
        /\ CallUpdateSyncJob(t, frame[t].job_id, FailedUpdate(e),
                <<"status", "error_message", "completed_at">>)
        /\ frame' = [frame EXCEPT ![t].exc = Some(e)]
    /\ pc' = [pc EXCEPT ![t] = AfterTerminal(frame[t].kind)]
    /\ UNCHANGED <<client, rerun, background, handed, now, sync_jobs, running_syncs,
                   db, calls, full, result>>

\* The fetch returns: _update_sync_job(job.id, items_total=len(data)).
UpdateTotal(t) ==
    /\ pc[t] = "fetch"
    /\ Settled(t)
    /\ \E data \in Responses :
        /\ CallUpdateSyncJob(t, frame[t].job_id, [items_total |-> Len(data)],
                <<"items_total">>)
        /\ frame' = [frame EXCEPT ![t].data = data, ![t].i = 1]
        /\ pc' = [pc EXCEPT ![t] = IF Len(data) = 0 THEN "complete" ELSE "save"]
    /\ net_requests' = net_requests + 1
    /\ UNCHANGED <<client, rerun, background, handed, now, sync_jobs, running_syncs,
                   db, calls, full, result>>

\* self._update_sync_job(job.id, items_processed=courses_synced)
UpdateProcessed(t) ==
    /\ pc[t] = "prog"
    /\ CallUpdateSyncJob(t, frame[t].job_id,
            [items_processed |-> frame[t].synced], <<"items_processed">>)
    /\ frame' = [frame EXCEPT ![t].i = frame[t].i + 1]
    /\ pc' = [pc EXCEPT ![t] = AfterItem(frame[t])]
    /\ UNCHANGED <<client, rerun, background, handed, now, sync_jobs, running_syncs,
                   db, net_requests, calls, full, result>>

\* _update_sync_job(job.id, status=COMPLETED, completed_at=utcnow(),
\* items_processed=courses_synced)
UpdateCompleted(t) ==
    /\ pc[t] = "complete"
    /\ Settled(t)
    /\ CallUpdateSyncJob(t, frame[t].job_id,
            [status |-> COMPLETED, completed_at |-> Some(now),
             items_processed |-> frame[t].synced],
            <<"status", "completed_at", "items_processed">>)
    /\ pc' = [pc EXCEPT ![t] = AfterTerminal(frame[t].kind)]
    /\ UNCHANGED <<client, rerun, background, handed, now, sync_jobs, running_syncs,
                   db, net_requests, calls, frame, full, result>>

\* The steps between two updates wait for the update before them to return.
PollSkipItem(t) == Settled(t) /\ SkipItem(t)
PollSaveItem(t) == Settled(t) /\ SaveItem(t)
PollCleanup(t) == Settled(t) /\ Cleanup(t)
PollReturn(t) == Settled(t) /\ Return(t)

\* An id that the registry never holds.
UnknownJob == "sync_nobody"

\* get_sync_status: return self.sync_jobs.get(job_id). The caller gets the
\* job object of the registry itself; handed keeps its id and what its
\* attributes were at the return.
get_sync_status(job_id) ==
    /\ handed' = IF job_id \in DOMAIN sync_jobs
                 THEN Some([id |-> job_id, job |-> sync_jobs[job_id]])
                 ELSE None
    /\ UNCHANGED <<sync, client, rerun, background, setting>>

\* One collection sync is called while a poller asks for the status.
PollCall(t) ==
    /\ calls = 0
    /\ \/ \E f \in BOOLEAN : sync_user_courses(t, "u1", f)
       \/ \E c \in CourseArgs : sync_course_assignments(t, "u1", c)

PollNext ==
    \/ Tick
    \/ \E j \in DOMAIN sync_jobs \cup {UnknownJob} : get_sync_status(j)
    \/ \E t \in Threads :
        \/ PollCall(t)
        \/ CreateJob(t)
        \/ AddRunning(t)
        \/ UpdateRunning(t)
        \/ SetAttr(t)
        \/ UpdateFailed(t)
        \/ UpdateTotal(t)
        \/ PollSkipItem(t)
        \/ PollSaveItem(t)
        \/ UpdateProcessed(t)
        \/ UpdateCompleted(t)
        \/ PollCleanup(t)
        \/ PollReturn(t)

PollSpec == Init /\ [][PollNext]_vars

(* --------------------------- _background_sync -------------------------- *)

\* The ticks of the background loop are counted up to MaxTicks.
MaxTicks == 1

\* The worker threads of the tick's ThreadPoolExecutor: max_workers of them.
PoolThreads == {"t1"}

\* self.max_concurrent_syncs, the max_workers of the executor.
max_concurrent_syncs == Cardinality(PoolThreads)

\* self.auth_service.users_db.values(), in the order of insertion.
UsersInOrder == <<"u1", "u2">>

\* User.token_expires_at: not set, or a clock reading.
Expirations == {None} \cup {Some(e) : e \in 1..MaxClock}

\* CanvasAuthService.is_token_valid: no expiration set, or not yet reached.
is_token_valid(u) ==
    \/ token_expires_at[u] = None
    \/ now < token_expires_at[u][1]

\* The subsequence of s whose elements satisfy is_token_valid.
RECURSIVE ValidOf(_)
ValidOf(s) ==
    IF s = <<>> THEN <<>>
    ELSE IF is_token_valid(Head(s)) THEN <<Head(s)>> \o ValidOf(Tail(s))
    ELSE ValidOf(Tail(s))

\* A loop that submits a sync whatever running_syncs holds.
NotRunningUnchecked(u) == TRUE

\* if user.id not in self.running_syncs
NotRunning(u) == u \notin running_syncs

BgInit ==
    /\ SyncConstructed
    /\ ClientConstructed
    /\ utc_offset = 0
    /\ remote = None
    /\ first_run = None
    /\ workflow_state = AllPublished
    /\ PollConstructed
    /\ BackgroundAsleep
    /\ token_expires_at \in [Users -> Expirations]

\* time.sleep returns: the users with a valid token are listed and the
\* executor of the tick is made.
BgWake ==
    /\ bgpc = "sleep"
    /\ ticks < MaxTicks
    /\ ticks' = ticks + 1
    /\ active_users' = ValidOf(UsersInOrder)
    /\ futures' = {}
    /\ bgpc' = "submit"
    /\ UNCHANGED <<sync, client, rerun, poll, token_expires_at, work_queue>>

\* One turn of the loop over active_users: executor.submit puts the work
\* item on the executor's queue, for a user that is not in running_syncs.
BgSubmit ==
    /\ bgpc = "submit"
    /\ active_users # <<>>
    /\ LET u == Head(active_users)
       IN IF NotRunning(u)
          THEN /\ work_queue' = Append(work_queue, u)
               /\ futures' = futures \cup {u}
          ELSE UNCHANGED <<work_queue, futures>>
    /\ active_users' = Tail(active_users)
    /\ UNCHANGED <<sync, client, rerun, poll, token_expires_at, bgpc, ticks>>

\* The loop is over: the tick waits in as_completed and at the end of the
\* with block.
BgAwait ==
    /\ bgpc = "submit"
    /\ active_users = <<>>
    /\ bgpc' = "wait"
    /\ UNCHANGED <<sync, client, rerun, poll, token_expires_at, active_users,
                   work_queue, futures, ticks>>

\* A worker of the pool that runs nothing takes the oldest work item and
\* calls sync_user_courses(user.id).
WorkerRun(t) ==
    /\ t \in PoolThreads
    /\ pc[t] = "idle"
    /\ work_queue # <<>>
    /\ EnterCourses(t, Head(work_queue), FALSE)
    /\ full' = [full EXCEPT ![t] = NoFull]
    /\ work_queue' = Tail(work_queue)
    /\ UNCHANGED <<client, rerun, poll, token_expires_at, bgpc, active_users, futures,
                   ticks, now, sync_jobs, running_syncs, db, net_requests, calls>>

\* Every future is done and the executor is shut down: the next sleep.
BgSleep ==
    /\ bgpc = "wait"
    /\ work_queue = <<>>
    /\ \A t \in PoolThreads : pc[t] = "idle"
    /\ bgpc' = "sleep"
    /\ UNCHANGED <<sync, client, rerun, poll, token_expires_at, active_users,
                   work_queue, futures, ticks>>

\* A thread outside the pool serves a request for trigger_sync.
BgTrigger(t) ==
    /\ t \notin PoolThreads
    /\ calls = 0
    /\ \E u \in Users : trigger_sync(t, u, "courses")

\* The remote course lists of the background runs: none, or one course.
BgResponses == {<<>>, <<[id |-> 1, fails |-> FALSE]>>}

\* client.get_courses() returns one of these lists,
BgFetchReturns(t) ==
    /\ FetchReturns(t)
    /\ frame'[t].data \in BgResponses

\* or the request times out.
BgFetchFails(t) ==
    /\ FetchFails(t)
    /\ frame'[t].exc = Some("Request timeout")

BgNext ==
    \/ Tick
    \/ BgWake
    \/ BgSubmit
    \/ BgAwait
    \/ BgSleep
    \/ \E t \in Threads :
        \/ WorkerRun(t)
        \/ BgTrigger(t)
        \/ CreateJob(t)
        \/ AddRunning(t)
        \/ MarkRunning(t)
        \/ BgFetchFails(t)
        \/ BgFetchReturns(t)
        \/ SaveItem(t)
        \/ UpdateProgress(t)
        \/ Complete(t)
        \/ Cleanup(t)
        \/ Return(t)

BgSpec == BgInit /\ [][BgNext]_vars

(* ---------- every call returns: the threads keep running --------------- *)

\* sync_user_courses, forced or not, or sync_user_full is called.
LiveCall(t) ==
    \/ \E f \in BOOLEAN : sync_user_courses(t, "u1", f)
    \/ sync_user_full(t, "u1")

\* One step of the operation that thread t executes. Every remote call and
\* every storage call returns or raises: the fetch is one of BgFetchReturns
\* and FetchFails, the save one of SaveItem and SkipItem.
ThreadStep(t) ==
    \/ CreateJob(t)
    \/ AddRunning(t)
    \/ MarkRunning(t)
    \/ FetchFails(t)
    \/ BgFetchReturns(t)
    \/ SaveItem(t)
    \/ UpdateProgress(t)
    \/ Complete(t)
    \/ Cleanup(t)
    \/ Return(t)
    \/ FullCreateJob(t)
    \/ FullMarkRunning(t)
    \/ FullFails(t)
    \/ FullAfterCourses(t)
    \/ FullNextCourse(t)
    \/ FullLoopEnds(t)
    \/ FullComplete(t)

LiveNext ==
    \/ Tick
    \/ \E t \in Threads :
        \/ LiveCall(t)
        \/ ThreadStep(t)

\* A thread that can take a step of its operation takes one.
LiveSpec ==
    /\ Init
    /\ [][LiveNext]_vars
    /\ \A t \in Threads : WF_vars(ThreadStep(t))

(* ---------- the syncs of one principal, each with its client ----------- *)

\* A service that keeps one client: the attributes are those of the client
\* that the sync before left.
ConstructedClientKept ==
    [cache |-> cache, cache_ttl |-> cache_ttl,
     rate_limit_info |-> rate_limit_info, last_request_time |-> last_request_time]

\* CanvasAPIClient.__init__: the attributes of a client just constructed.
ConstructedClient ==
    [cache |-> <<>>, cache_ttl |-> DefaultTTL,
     rate_limit_info |-> None, last_request_time |-> 0]

\* The fetch of thread t has made no call of a client yet: every fetch
\* before it that called one was counted in net_requests.
NoClientYet(t) ==
    /\ pc[t] = "fetch"
    /\ cpc[t] = "idle"
    /\ cframe[t].op = "none"
    /\ ccalls = net_requests

\* The call of the client made for the fetch of thread t has returned.
ClientReturned(t) ==
    /\ pc[t] = "fetch"
    /\ cpc[t] = "idle"
    /\ ccalls = net_requests + 1

\* client = self._get_canvas_client(user): the token is decrypted and a
\* CanvasAPIClient is constructed for this sync.
GetCanvasClient(t) ==
    /\ NoClientYet(t)
    /\ cache' = ConstructedClient.cache
    /\ cache_ttl' = ConstructedClient.cache_ttl
    /\ rate_limit_info' = ConstructedClient.rate_limit_info
    /\ last_request_time' = ConstructedClient.last_request_time
    /\ cframe' = [cframe EXCEPT ![t] = [NoCFrame EXCEPT !.op = "built"]]
    /\ UNCHANGED <<sync, rerun, poll, background, clock, utc_offset, sent, ccalls,
                   cpc, cresult>>

\* _get_canvas_client raises (decrypt_token, or the constructor without a
\* base url): no client, no request, and the job is marked failed.
GetCanvasClientFails(t) ==
    /\ NoClientYet(t)
    /\ FetchFails(t)
    /\ frame'[t].exc = Some("")

\* courses_data = client.get_courses()
OwnGetCourses(t) ==
    /\ pc[t] = "fetch"
    /\ cframe[t].op = "built"
    /\ get_courses(t)

\* The remote answers, with or without an exhausted quota in the headers,
\* refuses the token, or the request times out.
OwnRespond(t) ==
    /\ Respond(t)
    /\ LET o == cframe'[t].outcome[1]
           e == RaisedBy(o)
       IN /\ o.headers \in {NoHeaders, ExhaustedHeaders}
          /\ e = None \/ e[1].msg \in FetchErrors \ {""}

\* client.get_courses() returned the list that the sync goes through,
OwnFetchReturns(t) ==
    /\ ClientReturned(t)
    /\ cresult[t].tag = "data"
    /\ FetchReturns(t)
    /\ Len(frame'[t].data) = Len(cresult[t].data)
    /\ \A k \in 1..Len(cresult[t].data) : frame'[t].data[k].id = cresult[t].data[k]

\* or raised.
OwnFetchFails(t) ==
    /\ ClientReturned(t)
    /\ cresult[t].tag = "raise"
    /\ FetchFails(t)
    /\ frame'[t].exc = Some(cresult[t].msg)

\* sync_user_courses is called when no sync is in progress.
OwnCall(t) ==
    /\ \A s \in Threads : pc[s] = "idle"
    /\ \E f \in BOOLEAN : sync_user_courses(t, "u1", f)

OwnNext ==
    \/ Tick
    \/ ClientTick
    \/ \E t \in Threads :
        \/ OwnCall(t)
        \/ CreateJob(t)
        \/ AddRunning(t)
        \/ MarkRunning(t)
        \/ GetCanvasClient(t)
        \/ GetCanvasClientFails(t)
        \/ OwnGetCourses(t)
        \/ GetCached(t)
        \/ TestCached(t)
        \/ Pace(t)
        \/ CheckQuota(t)
        \/ SendRequest(t)
        \/ OwnRespond(t)
        \/ HandleOutcome(t)
        \/ StoreCache(t)
        \/ OwnFetchReturns(t)
        \/ OwnFetchFails(t)
        \/ SkipItem(t)
        \/ SaveItem(t)
        \/ UpdateProgress(t)
        \/ Complete(t)
        \/ Cleanup(t)
        \/ Return(t)

OwnSpec == Init /\ [][OwnNext]_vars

(* --------------------------- claims ------------------------------------ *)

\* The positions of a collection sync between its entry and its return.
InProgress == {"create", "add", "run", "fetch", "save", "prog", "complete", "finally"}

\* Thread t executes sync_user_courses for user_id and has passed the check.
CoursesInProgress(t, user_id) ==
    /\ frame[t].kind = "courses"
    /\ frame[t].user_id = user_id
    /\ pc[t] \in InProgress

\* Thread t has inserted user_id into running_syncs and not yet run its finally.
CoursesHolding(t, user_id) ==
    /\ CoursesInProgress(t, user_id)
    /\ pc[t] \notin {"create", "add"}

RunningJobs(user_id) ==
    {j \in DOMAIN sync_jobs :
        sync_jobs[j].user_id = user_id /\ sync_jobs[j].status = RUNNING}

\* C1: for every principal, at most one job of that principal is Running.
C1_AtMostOneRunning ==
    \A u \in Users : Cardinality(RunningJobs(u)) <= 1

\* C2: of two concurrent unforced sync_user_courses calls for one principal
\* at most one passes the check and creates a job: never are two of them
\* both between their check and their cleanup.
C2_OneProceeds ==
    \A t1, t2 \in Threads :
        t1 # t2 =>
            ~ \E u \in Users :
                /\ CoursesInProgress(t1, u) /\ ~frame[t1].force_refresh
                /\ CoursesInProgress(t2, u) /\ ~frame[t2].force_refresh

\* The step creates (or replaces) the registry entry j.
Creates(j) ==
    \E t \in Threads :
        \/ /\ pc[t] = "create" /\ pc'[t] # "create"
           /\ j = JobId(frame[t].user_id, frame[t].kind, now)
        \/ /\ pc[t] = "full_create" /\ pc'[t] # "full_create"
           /\ j = JobId(full[t].user_id, "full", now)

StatusChanges == {<<PENDING, RUNNING>>, <<RUNNING, COMPLETED>>, <<RUNNING, FAILED>>}

\* C3: the status of a job changes only from Pending to Running, from
\* Running to Completed and from Running to Failed.
C3_StatusChanges ==
    [][\A j \in DOMAIN sync_jobs :
          (~Creates(j) /\ sync_jobs'[j].status # sync_jobs[j].status)
              => <<sync_jobs[j].status, sync_jobs'[j].status>> \in StatusChanges]_vars

\* C4: a principal is in running_syncs only while a sync_user_courses
\* execution for it is between its insertion and its finally block; after
\* every return or raise of the inserting execution the principal is out.
C4_RemovedOnEveryExit ==
    \A u \in Users :
        u \in running_syncs => \E t \in Threads : CoursesHolding(t, u)

\* A sync_user_courses execution has raised after a failed fetch, and its
\* principal is not in running_syncs.
C4_Witness ==
    /\ \E t \in Threads : pc[t] = "idle" /\ result[t] = Raise("Request timeout")
    /\ \E j \in DOMAIN sync_jobs :
          sync_jobs[j].sync_type = "courses" /\ sync_jobs[j].status = FAILED
    /\ running_syncs = {}

\* C5: an unforced sync_user_courses call that finds its principal in
\* running_syncs returns None and changes neither the registry, nor
\* running_syncs, nor storage, and sends no request.
C5_RejectedIsNoOp ==
    [][\A t \in Threads, u \in Users :
          (u \in running_syncs /\ sync_user_courses(t, u, FALSE))
              => /\ result'[t] = ReturnNone
                 /\ pc'[t] = "idle"
                 /\ UNCHANGED <<sync_jobs, running_syncs, db, net_requests>>]_vars

\* A call was rejected while another execution holds the principal.
C5_Witness ==
    \E t1, t2 \in Threads :
        /\ pc[t1] = "idle" /\ result[t1] = ReturnNone
        /\ CoursesHolding(t2, "u1")
        /\ "u1" \in running_syncs

\* Thread t is at the return of a collection sync that did not raise.
AtReturn(t) == pc[t] = "ret" /\ frame[t].exc = None

\* The ids of the fetched items on which the loop body raises, and the rest.
FailedIds(fr) == {fr.data[k].id : k \in {k \in 1..Len(fr.data) : fr.data[k].fails}}
SavedIds(fr) == {fr.data[k].id : k \in {k \in 1..Len(fr.data) : ~fr.data[k].fails}}

\* The keys of the table that a sync of this kind writes, and the key of an item.
StoredKeys(kind) ==
    CASE kind = "courses" -> DOMAIN courses
      [] kind = "assignments" -> DOMAIN assignments
      [] OTHER -> DOMAIN submissions

KeyOf(kind, id) ==
    CASE kind = "courses" -> CourseKey(id)
      [] kind = "assignments" -> AssignKey(id)
      [] OTHER -> SubKey(id)

\* C6: an unforced sync_user_courses whose fetch returned n well-formed
\* courses returns with its job Completed and items_processed = items_total
\* = n, with a mirror "course_" + id for every fetched course, and, when it
\* is the only call made, with exactly n mirrors in storage.
C6_CoursesSynced ==
    \A t \in Threads :
        (/\ AtReturn(t)
         /\ frame[t].kind = "courses" /\ ~frame[t].force_refresh
         /\ FailedIds(frame[t]) = {})
            => LET n == Len(frame[t].data)
                   job == sync_jobs[frame[t].job_id]
               IN /\ frame[t].job_id # ""
                  /\ job.status = COMPLETED
                  /\ job.items_processed = n
                  /\ job.items_total = n
                  /\ \A id \in SavedIds(frame[t]) : CourseKey(id) \in DOMAIN courses
                  /\ calls = 1 => Cardinality(DOMAIN courses) = n

\* C7: a collection sync whose fetch returned n items, of which those in F
\* fail, returns with its job Completed, items_total = n and
\* items_processed = n - |F|, with a mirror of every item outside F, and,
\* when it is the only call made, with no mirror of an item in F.
C7_PartialFailure ==
    \A t \in Threads :
        AtReturn(t)
            => LET fr == frame[t]
                   job == sync_jobs[fr.job_id]
               IN /\ job.status = COMPLETED
                  /\ job.items_total = Len(fr.data)
                  /\ job.items_processed = Len(fr.data) - Cardinality(FailedIds(fr))
                  /\ \A id \in SavedIds(fr) : KeyOf(fr.kind, id) \in StoredKeys(fr.kind)
                  /\ calls = 1 =>
                        \A id \in FailedIds(fr) : KeyOf(fr.kind, id) \notin StoredKeys(fr.kind)

\* C8: from the failure of the fetch of a collection sync until the
\* exception reaches the caller, the job is Failed with the error in
\* error_message and items_processed = 0.
C8_FetchFailure ==
    \A t \in Threads :
        (pc[t] \in {"finally", "ret"} /\ frame[t].exc # None)
            => LET job == sync_jobs[frame[t].job_id]
               IN /\ job.status = FAILED
                  /\ job.error_message = frame[t].exc
                  /\ job.items_processed = 0

\* C9: every Failed job has an error_message that is present and non-empty.
C9_FailedHasMessage ==
    \A j \in DOMAIN sync_jobs :
        sync_jobs[j].status = FAILED
            => /\ sync_jobs[j].error_message # None
               /\ sync_jobs[j].error_message # Some("")

\* C10: apart from the creation of a job, items_processed of a Running job
\* never decreases, the step that ends a Running job keeps its value, and
\* items_processed of a Completed or Failed job never changes.
C10_ProcessedMonotone ==
    [][\A j \in DOMAIN sync_jobs :
          ~Creates(j) =>
            /\ sync_jobs[j].status = RUNNING =>
                    sync_jobs'[j].items_processed >= sync_jobs[j].items_processed
            /\ (sync_jobs[j].status = RUNNING /\ sync_jobs'[j].status \in {COMPLETED, FAILED}) =>
                    sync_jobs'[j].items_processed = sync_jobs[j].items_processed
            /\ sync_jobs[j].status \in {COMPLETED, FAILED} =>
                    sync_jobs'[j].items_processed = sync_jobs[j].items_processed]_vars

\* C11: within a sync_user_full, the loop over the courses is entered from
\* the courses phase only when that phase did not raise and its job is
\* Completed, it is otherwise only re-entered at the return of one of its
\* assignment syncs, and an assignment sync of a full sync starts only from
\* that loop.
C11_AssignmentsAfterCourses ==
    [][\A t \in Threads :
          /\ (pc[t] = "full_after" /\ pc'[t] = "full_loop")
                => /\ frame[t].exc = None
                   /\ sync_jobs[frame[t].job_id].sync_type = "courses"
                   /\ sync_jobs[frame[t].job_id].status = COMPLETED
          /\ (pc[t] # "full_loop" /\ pc'[t] = "full_loop")
                => \/ pc[t] = "full_after"
                   \/ pc[t] = "ret" /\ frame[t].kind = "assignments"
          /\ (/\ frame'[t].kind = "assignments" /\ frame'[t].caller = "full"
              /\ pc'[t] = "create" /\ pc[t] # "create")
                => pc[t] = "full_loop"]_vars

\* An assignment sync made by a sync_user_full is in progress, after the
\* courses job of that user was Completed.
C11_Witness ==
    \E t \in Threads :
        /\ frame[t].kind = "assignments" /\ frame[t].caller = "full"
        /\ pc[t] = "fetch"
        /\ \E j \in DOMAIN sync_jobs :
              /\ sync_jobs[j].sync_type = "courses"
              /\ sync_jobs[j].user_id = full[t].user_id
              /\ sync_jobs[j].status = COMPLETED

\* C12: when sync_user_full has returned its job, storage holds no
\* submission mirror and, the courses of its courses phase being all
\* well-formed, one course mirror per fetched course, and the returned job
\* reports the items_total of the courses phase.
C12_FullSyncTotals ==
    \A t \in Threads :
        (/\ pc[t] = "idle" /\ result[t].tag = "job"
         /\ result[t].val \in DOMAIN sync_jobs
         /\ sync_jobs[result[t].val].sync_type = "full")
            => LET job == sync_jobs[result[t].val]
               IN /\ submissions = <<>>
                  /\ \A j \in DOMAIN sync_jobs :
                        (/\ sync_jobs[j].sync_type = "courses"
                         /\ sync_jobs[j].user_id = job.user_id
                         /\ sync_jobs[j].status = COMPLETED
                         /\ sync_jobs[j].items_processed = sync_jobs[j].items_total)
                            => /\ Cardinality(DOMAIN courses) = sync_jobs[j].items_total
                               /\ job.items_total = sync_jobs[j].items_total

\* C13: from the end of the first of two successive runs of
\* sync_course_assignments for one course against an unchanged remote list,
\* throughout and after the second run, storage holds the same assignment
\* mirror keys with the same field values as the first run left.
C13_RerunIdempotent ==
    first_run # None => assignments = first_run[1]

\* The second run has returned its job, and both runs mirrored two assignments.
C13_Witness ==
    /\ first_run # None
    /\ calls = 2
    /\ \A t \in Threads : pc[t] = "idle"
    /\ \E t \in Threads : result[t].tag = "job"
    /\ Cardinality(DOMAIN assignments) = 2
    /\ \A j \in DOMAIN sync_jobs : sync_jobs[j].status = COMPLETED

\* C14: a lookup of key k returns the stored value exactly when the entry
\* is there and clock - timestamp is less than the TTL in force at the
\* lookup, and then leaves the cache alone; otherwise it returns nothing and
\* the entry is gone. A change of the TTL removes no entry, and a put stores
\* the value under k with the time of the put.
C14_CacheLookup ==
    [][/\ \A t \in Threads :
            (cpc[t] = "lookup" /\ cpc'[t] = "test")
                => LET k == cframe[t].key
                   IN IF k \in DOMAIN cache /\ clock - cache[k].timestamp < cache_ttl
                      THEN /\ cframe'[t].cached = Some(cache[k].data)
                           /\ cache' = cache
                      ELSE /\ cframe'[t].cached = None
                           /\ k \notin DOMAIN cache'
       /\ cache_ttl' # cache_ttl => cache' = cache
       /\ \A t \in Threads :
            (cpc[t] = "store" /\ cpc'[t] = "idle")
                => cache'[cframe[t].key] =
                        [data |-> cframe[t].outcome[1].payload, timestamp |-> clock]]_vars

\* After two fetches, the second later than the first, a lookup under a TTL
\* other than the default has hit on the value that the second fetch put.
C14_Witness ==
    \E t \in Threads :
        /\ cpc[t] = "test"
        /\ cframe[t].cached = Some(<<1>>)
        /\ Len(sent) = 2 /\ sent[2] > sent[1]
        /\ cache_ttl # DefaultTTL
        /\ cframe[t].key \in DOMAIN cache
        /\ cache[cframe[t].key].timestamp > sent[2]
        /\ clock > cache[cframe[t].key].timestamp
        /\ \A s \in Threads \ {t} : cpc[s] = "idle"

\* C15: a getter whose lookup found its payload in the cache within the
\* TTL returns that payload and sends no request, whatever the payload.
C15_RepeatServedFromCache ==
    [][\A t \in Threads :
          (cpc[t] = "test" /\ cpc'[t] # "test" /\ cframe[t].cached # None)
              => /\ cpc'[t] = "idle"
                 /\ cresult'[t] = ReturnData(cframe[t].cached[1])
                 /\ sent' = sent]_vars

\* The epoch time of the stored quota's reset: FromTimestamp of it is the
\* stored reset_time.
ResetEpoch(info) == info.reset_time - utc_offset

\* C16: a request call that finds the stored quota with remaining = 0
\* sleeps at least until the reset time T when T is in the future, and goes
\* on to send without a quota wait when T is past.
C16_WaitsForReset ==
    [][\A t \in Threads :
          (/\ cpc[t] = "quota" /\ cpc'[t] # "quota"
           /\ rate_limit_info # None
           /\ rate_limit_info[1].remaining = 0)
              => IF ResetEpoch(rate_limit_info[1]) > clock
                 THEN /\ cpc'[t] = "quota_sleep"
                      /\ cframe'[t].wake >= ResetEpoch(rate_limit_info[1])
                 ELSE cpc'[t] = "send"]_vars

\* All three rate-limit headers are present and numerals.
AllNumeral(h) == IsNumeral(h.limit) /\ IsNumeral(h.remaining) /\ IsNumeral(h.reset)

\* C17: the step that handles a response with all three headers numeric
\* stores their values as the quota; the step that handles any other
\* response, a timeout or a connection error, and every other step, leaves
\* the stored quota as it was; a stored quota never goes back to None.
C17_QuotaFollowsHeaders ==
    [][/\ \A t \in Threads :
            (cpc[t] = "handle" /\ cpc'[t] # "handle")
                => LET o == cframe[t].outcome[1]
                   IN IF IsResponse(o) /\ AllNumeral(o.headers)
                      THEN rate_limit_info' =
                            Some([limit |-> o.headers.limit[1].value,
                                  remaining |-> o.headers.remaining[1].value,
                                  reset_time |-> FromTimestamp(o.headers.reset[1].value)])
                      ELSE rate_limit_info' = rate_limit_info
       /\ (\A t \in Threads : ~(cpc[t] = "handle" /\ cpc'[t] # "handle"))
            => rate_limit_info' = rate_limit_info
       /\ rate_limit_info # None => rate_limit_info' # None]_vars

\* One thread's first request stored a quota, its second request timed out,
\* and the quota is still stored.
C17_Witness ==
    /\ rate_limit_info # None
    /\ ccalls = 2
    /\ cpc["t1"] = "idle" /\ cresult["t1"].msg = "Request timeout"
    /\ cpc["t2"] = "idle" /\ cresult["t2"] = NoCResult

\* C18: the stored quota's remaining value is never negative.
C18_RemainingClamped ==
    rate_limit_info # None => rate_limit_info[1].remaining >= 0

\* C19: each request goes to the network at least min_request_interval
\* after the one before it.
C19_RequestsSpaced ==
    \A i \in 1..(Len(sent) - 1) : sent[i + 1] - sent[i] >= MinInterval

\* The kind of an outcome: 401 Unauthorized, 404 NotFound, 429 RateLimited,
\* any other status outside 200..299 ServerError, a timeout Timeout, a
\* connection failure ConnectionError; a 2xx status gives the payload.
KindOf(o) ==
    IF ~IsResponse(o) THEN o.error
    ELSE CASE o.status = 401 -> "Unauthorized"
           [] o.status = 404 -> "NotFound"
           [] o.status = 429 -> "RateLimited"
           [] o.status \in 200..299 -> "Payload"
           [] OTHER -> "ServerError"

\* C20: the step that handles an outcome returns the payload exactly for
\* the 2xx statuses, and otherwise raises an error whose type is raised for
\* no outcome of another kind.
C20_ErrorKindsDistinct ==
    [][\A t \in Threads :
          (cpc[t] = "handle" /\ cpc'[t] # "handle")
              => LET o == cframe[t].outcome[1]
                 IN IF KindOf(o) = "Payload"
                    THEN cpc'[t] = "store" \/ cresult'[t].tag = "data"
                    ELSE /\ cresult'[t].tag = "raise"
                         /\ \A o2 \in Outcomes :
                               (KindOf(o2) # KindOf(o) /\ RaisedBy(o2) # None)
                                   => RaisedBy(o2)[1].type # cresult'[t].type]_vars


\* C25: a job creation never takes an id that the registry already holds:
\* no creation replaces an entry, every creation adds one entry.
C25_CreationAddsEntry ==
    [][\A j \in DOMAIN sync_jobs :
          Creates(j) =>
              Cardinality(DOMAIN sync_jobs') = Cardinality(DOMAIN sync_jobs) + 1]_vars

\* C27: while a sync_user_courses execution for a principal is between its
\* insertion into running_syncs and its finally block, the principal is in
\* running_syncs, whatever other executions for that principal do.
C27_HeldWhileRunning ==
    \A t \in Threads, u \in Users :
        CoursesHolding(t, u) => u \in running_syncs

\* Thread t executes sync_user_full (an assignment sync of its own included).
InFull(t) == full[t].user_id # ""

\* C28: in a sync_user_full, an assignment sync that raised returns to the
\* loop over the courses, which goes on to every remaining course and then
\* to the update that marks the full job Completed; and a job of an
\* assignment sync that failed stays recorded as Failed while the full sync
\* of its principal goes on.
C28_FullSurvivesFailure ==
    [][\A t \in Threads :
          /\ (/\ pc[t] = "ret" /\ pc'[t] # "ret"
              /\ frame[t].caller = "full" /\ frame[t].kind = "assignments"
              /\ frame[t].exc # None)
                => pc'[t] = "full_loop" /\ full'[t] = full[t]
          /\ (pc[t] = "full_loop" /\ pc'[t] # "full_loop")
                => IF full[t].todo = {}
                   THEN pc'[t] = "full_complete"
                   ELSE /\ pc'[t] = "create"
                        /\ frame'[t].kind = "assignments"
                        /\ frame'[t].course_id \in full[t].todo
                        /\ full'[t].todo = full[t].todo \ {frame'[t].course_id}
          /\ (pc[t] = "full_complete" /\ pc'[t] # "full_complete")
                => sync_jobs'[full[t].job_id].status = COMPLETED
          /\ InFull(t) =>
                \A j \in DOMAIN sync_jobs :
                    (/\ sync_jobs[j].sync_type = "assignments"
                     /\ sync_jobs[j].user_id = full[t].user_id
                     /\ sync_jobs[j].status = FAILED)
                        => sync_jobs'[j].status = FAILED]_vars


\* The AssignmentStatus that a remote workflow state stands for.
ExpectedStatus(ws) ==
    CASE ws = Some("published") -> PUBLISHED
      [] ws = Some("unpublished") -> UNPUBLISHED
      [] OTHER -> DRAFT

\* C26: every assignment mirror stored by sync_course_assignments has the
\* status Published when the remote workflow state is "published",
\* Unpublished when it is "unpublished", and Draft for every other value
\* and for an absent one.
C26_StatusFromWorkflowState ==
    \A i \in RemoteIds :
        AssignKey(i) \in DOMAIN assignments
            => assignments[AssignKey(i)].status = ExpectedStatus(workflow_state[i])

\* C24: the job that get_sync_status handed to a poller is never partially
\* updated when the poller looks at it (Running with started_at set,
\* Completed or Failed with completed_at set, Failed with error_message
\* set), and it is as it was when it was handed out.
C24_ConsistentSnapshot ==
    handed # None =>
        LET job == sync_jobs[handed[1].id]
        IN /\ job.status = RUNNING => job.started_at # None
           /\ job.status \in {COMPLETED, FAILED} => job.completed_at # None
           /\ job.status = FAILED => job.error_message # None
           /\ job = handed[1].job

\* The pool's workers that execute a sync_user_courses.
BackgroundExecutions == {t \in PoolThreads : pc[t] # "idle"}

\* The principals for which some thread executes a sync.
Syncing == {u \in Users : \E t \in Threads : pc[t] \in InProgress /\ frame[t].user_id = u}

\* C21: at most max_concurrent_syncs background-submitted sync_user_courses
\* executions are in progress, and syncs are in progress for at most that
\* many distinct principals.
C21_AtMostMaxConcurrent ==
    /\ Cardinality(BackgroundExecutions) <= max_concurrent_syncs
    /\ Cardinality(Syncing) <= max_concurrent_syncs

\* C22: a sync that a tick submits is taken by a worker at once or not at
\* all: no work item waits in the executor while every worker is busy, and
\* the tick waits for no sync that has not started.
C22_ExcessDropped ==
    work_queue # <<>> => \E t \in PoolThreads : pc[t] = "idle"

\* C23: a tick lists exactly the users whose token is valid when it
\* wakes; each turn of its loop submits sync_user_courses for the listed
\* user exactly when the user is not in running_syncs; and the pool runs
\* a sync only for a user that the tick submitted, so that a user who was
\* skipped or not listed gets no sync from the tick.
C23_SubmittedExactlyEligible ==
    [][/\ (bgpc = "sleep" /\ bgpc' = "submit")
            => /\ {active_users'[k] : k \in 1..Len(active_users')}
                    = {u \in Users : is_token_valid(u)}
               /\ futures' = {}
       /\ (bgpc = "submit" /\ active_users' # active_users)
            => LET u == Head(active_users)
               IN IF u \in running_syncs
                  THEN futures' = futures /\ work_queue' = work_queue
                  ELSE /\ futures' = futures \cup {u}
                       /\ work_queue' = Append(work_queue, u)
       /\ \A t \in PoolThreads :
            (pc[t] = "idle" /\ pc'[t] # "idle")
                => /\ frame'[t].user_id \in futures
                   /\ frame'[t].user_id = Head(work_queue)
                   /\ ~frame'[t].force_refresh
       /\ \A k \in 1..Len(work_queue') : work_queue'[k] \in futures']_vars

\* A tick skipped u1, whose sync a trigger_sync had started, and submitted
\* u2, whose sync a worker of the pool executes while u1's sync goes on.
C23_Witness ==
    /\ bgpc = "wait"
    /\ futures = {"u2"}
    /\ "u1" \in running_syncs
    /\ \E t \in Threads \ PoolThreads : CoursesHolding(t, "u1")
    /\ \E t \in PoolThreads : CoursesHolding(t, "u2") /\ pc[t] = "fetch"

\* The ids that a job can get.
JobIds ==
    {JobId(u, k, ts) : u \in Users, k \in {"courses", "assignments", "full"},
                       ts \in 0..MaxClock}

BeforeSend == {"lookup", "test", "pace", "pace_sleep", "quota", "quota_sleep", "send"}

====
